---- MODULE Spec2Model ----
(***************************************************************************)
(* Import resolution of protobuf-codegen-pure: the session object `Run`    *)
(* (src/protobuf-codegen-pure/src/lib.rs, 162-307) and the entry point     *)
(* parse_and_typecheck (319-344).                                          *)
(*                                                                         *)
(* A filesystem path is the sequence of its components; "." is the         *)
(* current-directory component and "/" the root of an absolute path.  A    *)
(* canonical (protobuf) path is the sequence of its slash-separated        *)
(* segments.  The recursion add_file_content -> add_imported_file ->       *)
(* add_file -> add_file_content is kept as an explicit call stack: one     *)
(* frame per add_file_content call that has parsed its file and is in the  *)
(* loop over its imports (lib.rs 218-220).                                 *)
(***************************************************************************)
EXTENDS Naturals, Sequences, FiniteSets

VARIABLES
    fs,               \* the filesystem: normalised path -> file state (never written)
    includes,         \* Run.includes (lib.rs 164)
    input,            \* the `input` argument of parse_and_typecheck (lib.rs 321)
    parsed_files,     \* Run.parsed_files (lib.rs 163), in insertion order
    stack,            \* the add_file_content calls in progress, innermost last
    next_input,       \* position of the loop of lib.rs 330 in `input`
    relative_paths,   \* the local of lib.rs 328
    outcome,          \* "running", "ok" (lib.rs 340) or "err" (a `?` returned)
    file_descriptors, \* ParsedAndTypechecked.file_descriptors once outcome = "ok"
    error,            \* the error returned once outcome = "err", outermost layer first
    reads,            \* log: the paths given to fs::read_to_string (lib.rs 201)
    parses,           \* log: the calls of model::FileDescriptor::parse (lib.rs 213)
    converts,         \* log: the calls of convert::file_descriptor (lib.rs 227)
    context,          \* log: the files being processed when the error arose
    called            \* log: the method the last step called, and its argument

vars == <<fs, includes, input, parsed_files, stack, next_input, relative_paths,
          outcome, file_descriptors, error, reads, parses, converts, context, called>>

(***************************************************************************)
(* Bounds of the model.                                                    *)
(***************************************************************************)
MaxInputs == 2
MaxIncludes == 2
MaxDepth == 6

(***************************************************************************)
(* Paths.                                                                  *)
(***************************************************************************)
Dot == <<".">>
D1 == <<"d1">>
D2 == <<"d2">>
AbsInput == <<"/", "x", "a">>

is_relative(path) == path = <<>> \/ path[1] # "/"

IsPrefix(p, q) == Len(p) <= Len(q) /\ SubSeq(q, 1, Len(p)) = p

\* std::path::Path::strip_prefix: the components of `prefix` must start `path`.
path_strip_prefix(path, prefix) ==
    IF IsPrefix(prefix, path)
    THEN [ok |-> TRUE, val |-> SubSeq(path, Len(prefix) + 1, Len(path))]
    ELSE [ok |-> FALSE, val |-> <<>>]

\* std::path::Path::join: an absolute `path` replaces `base`.
join(base, path) == IF is_relative(path) THEN base \o path ELSE path

\* The file the operating system opens for a path: "." components do not count.
FsNorm(path) == SelectSeq(path, LAMBDA c : c # ".")

\* ProtoPathBuf::from_path: an absolute path has no canonical form.
from_path(path) ==
    IF is_relative(path)
    THEN [ok |-> TRUE, val |-> FsNorm(path)]
    ELSE [ok |-> FALSE, val |-> <<>>]

\* ProtoPath::to_path
to_path(protobuf_path) == protobuf_path

\* strip_prefix without the special handling of `.` (lib.rs 280-282)
strip_prefix_plain(path, prefix) ==
    LET r == path_strip_prefix(path, prefix)
    IN  IF r.ok THEN from_path(r.val) ELSE [ok |-> FALSE, val |-> <<>>]

\* Run::strip_prefix (lib.rs 279-286)
strip_prefix(path, prefix) ==
    IF prefix = Dot /\ is_relative(path)
    THEN from_path(path)
    ELSE LET r == path_strip_prefix(path, prefix)
         IN  IF r.ok THEN from_path(r.val) ELSE [ok |-> FALSE, val |-> <<>>]

(***************************************************************************)
(* File contents, the parser and the converter.                            *)
(***************************************************************************)
Absent == [st |-> "absent", syntax |-> FALSE, imports |-> <<>>, decls |-> "none"]
Unreadable == [st |-> "unreadable", syntax |-> FALSE, imports |-> <<>>, decls |-> "none"]
Text(imports, decls) ==
    [st |-> "file", syntax |-> TRUE, imports |-> imports, decls |-> decls]
SyntaxError == [st |-> "file", syntax |-> FALSE, imports |-> <<>>, decls |-> "none"]

FileAt(f, fs_path) ==
    IF FsNorm(fs_path) \in DOMAIN f THEN f[FsNorm(fs_path)] ELSE Absent

\* Path::exists (lib.rs 248)
exists(f, fs_path) == FileAt(f, fs_path).st # "absent"

\* fs::read_to_string (lib.rs 201)
read_to_string(f, fs_path) ==
    LET file == FileAt(f, fs_path)
    IN  IF file.st = "file" THEN [ok |-> TRUE, val |-> file]
        ELSE [ok |-> FALSE, val |-> Absent]

\* model::FileDescriptor::parse (lib.rs 213): text in, File Model out
parse(content) ==
    IF content.syntax
    THEN [ok |-> TRUE, val |-> [imports |-> content.imports, decls |-> content.decls]]
    ELSE [ok |-> FALSE, val |-> [imports |-> <<>>, decls |-> "none"]]

\* convert::file_descriptor (lib.rs 227): the descriptor of a File Model.  It
\* is a function of the File Model and of the dependencies in the order they
\* are handed over: `resolved` keeps the files the names were looked up in.
file_descriptor(protobuf_path, parsed, deps) ==
    IF parsed.decls = "semantic_error"
    THEN [ok |-> FALSE,
          val |-> [name |-> protobuf_path, dependency |-> <<>>, decls |-> "none",
                   resolved |-> <<>>]]
    ELSE [ok |-> TRUE,
          val |-> [name |-> protobuf_path, dependency |-> parsed.imports,
                   decls |-> parsed.decls,
                   resolved |-> [n \in 1..Len(deps) |-> deps[n].descriptor.name]]]

(***************************************************************************)
(* The embedded schema table (lib.rs 253-267, 355-366).                    *)
(***************************************************************************)
GP(name) == <<"google", "protobuf", name>>
AnyProto == GP("any.proto")
NearMiss == GP("Any.proto")

EmbeddedPaths ==
    { <<"rustproto.proto">>, GP("any.proto"), GP("api.proto"), GP("descriptor.proto"),
      GP("duration.proto"), GP("empty.proto"), GP("field_mask.proto"),
      GP("source_context.proto"), GP("struct.proto"), GP("timestamp.proto"),
      GP("type.proto"), GP("wrappers.proto") }

\* The text of an embedded schema: the files under src/proto of the crate.
EmbeddedText(protobuf_path) ==
    Text(CASE protobuf_path = <<"rustproto.proto">> -> <<GP("descriptor.proto")>>
           [] protobuf_path = GP("api.proto") ->
                  <<GP("source_context.proto"), GP("type.proto")>>
           [] protobuf_path = GP("type.proto") ->
                  <<GP("any.proto"), GP("source_context.proto")>>
           [] OTHER -> <<>>,
         "well_known")

\* the match of lib.rs 253-267
embedded(protobuf_path) ==
    IF protobuf_path \in EmbeddedPaths
    THEN [some |-> TRUE, val |-> EmbeddedText(protobuf_path)]
    ELSE [some |-> FALSE, val |-> Absent]

(***************************************************************************)
(* LinkedHashMap (lib.rs 44): a sequence of entries in insertion order.    *)
(***************************************************************************)
Keys(m) == { m[i].key : i \in 1..Len(m) }
KeySeq(m) == [i \in 1..Len(m) |-> m[i].key]
contains_key(m, k) == k \in Keys(m)
IndexOf(m, k) == CHOOSE i \in 1..Len(m) : m[i].key = k
get(m, k) == m[IndexOf(m, k)].val
\* insert: a new key goes to the back; for a key that is present the value is
\* replaced and the entry moves to the back
insert(m, k, v) ==
    Append(SelectSeq(m, LAMBDA e : e.key # k), [key |-> k, val |-> v])
\* into_iter().map(|(_, v)| v).collect()
values(m) == [i \in 1..Len(m) |-> m[i].val]

(***************************************************************************)
(* Errors (lib.rs 144-160): an error is the sequence of its layers, the    *)
(* outermost first; WithFileError is the layer that has a source.          *)
(***************************************************************************)
Layer(kind, arg) == <<[kind |-> kind, arg |-> arg]>>
FileNotFoundInImportPath(protobuf_path) == Layer("FileNotFoundInImportPath", protobuf_path)
FileMustResideInImportPath(fs_path) == Layer("FileMustResideInImportPath", fs_path)
CouldNotReadFile(fs_path) == Layer("CouldNotReadFile", fs_path)
LocatedSyntaxError == Layer("LocatedSyntaxError", <<>>)
SemanticError == Layer("SemanticError", <<>>)
\* WithFileError { file, error } (lib.rs 146-150)
WithFileError(file, e) == Layer("WithFileError", file) \o e

(***************************************************************************)
(* The dependency closure (lib.rs 168-194).  `result` is the accumulator   *)
(* map; panic is set when expect("must be already parsed") fails, and      *)
(* clones counts the pair.clone() calls of lib.rs 181.                     *)
(***************************************************************************)
RECURSIVE get_file_and_all_deps_already_parsed(_, _, _)
RECURSIVE deps_of_imports(_, _, _, _)

\* the loop of lib.rs 191-193, from the n-th import on
deps_of_imports(pf, imports, n, result) ==
    IF n > Len(imports) \/ result.panic THEN result
    ELSE deps_of_imports(pf, imports, n + 1,
             get_file_and_all_deps_already_parsed(pf, imports[n], result))

\* lib.rs 168-184 without the return of 173-175 for a path already in `result`
get_file_again(pf, protobuf_path, result) ==
    IF ~contains_key(pf, protobuf_path) THEN [result EXCEPT !.panic = TRUE]
    ELSE LET pair == get(pf, protobuf_path)
         IN  deps_of_imports(pf, pair.parsed.imports, 1,
                 [result EXCEPT !.map = insert(@, protobuf_path, pair),
                                !.clones = @ + 1])

\* lib.rs 168-184 with the file inserted after its imports instead of before
get_file_after_its_deps(pf, protobuf_path, result) ==
    IF contains_key(result.map, protobuf_path) THEN result
    ELSE IF ~contains_key(pf, protobuf_path) THEN [result EXCEPT !.panic = TRUE]
    ELSE LET pair == get(pf, protobuf_path)
             r == deps_of_imports(pf, pair.parsed.imports, 1, result)
         IN  [r EXCEPT !.map = insert(@, protobuf_path, pair), !.clones = @ + 1]

\* lib.rs 168-184
get_file_and_all_deps_already_parsed(pf, protobuf_path, result) ==
    IF contains_key(result.map, protobuf_path) THEN result
    ELSE IF ~contains_key(pf, protobuf_path) THEN [result EXCEPT !.panic = TRUE]
    ELSE LET pair == get(pf, protobuf_path)
         IN  deps_of_imports(pf, pair.parsed.imports, 1,
                 [result EXCEPT !.map = insert(@, protobuf_path, pair),
                                !.clones = @ + 1])

\* the closure taken to be the whole cache
get_all_deps_whole_cache(pf, parsed, result) ==
    [result EXCEPT !.map = pf, !.clones = Len(pf)]

\* lib.rs 186-194
get_all_deps_already_parsed(pf, parsed, result) ==
    deps_of_imports(pf, parsed.imports, 1, result)

(***************************************************************************)
(* The searches over the include directories.                              *)
(***************************************************************************)
Min(S) == CHOOSE x \in S : \A y \in S : x <= y

\* the search of lib.rs 289-293 won by the last include directory that strips
relative_path_last(incl, fs_path) ==
    LET hits == { i \in 1..Len(incl) : strip_prefix(fs_path, incl[i]).ok }
    IN  IF hits = {} THEN [some |-> FALSE, val |-> <<>>]
        ELSE [some |-> TRUE,
              val |-> strip_prefix(fs_path,
                          incl[CHOOSE i \in hits : \A j \in hits : j <= i]).val]

\* lib.rs 289-293: the first include directory that strips from fs_path
relative_path(incl, fs_path) ==
    LET hits == { i \in 1..Len(incl) : strip_prefix(fs_path, incl[i]).ok }
    IN  IF hits = {} THEN [some |-> FALSE, val |-> <<>>]
        ELSE [some |-> TRUE, val |-> strip_prefix(fs_path, incl[Min(hits)]).val]

\* the search of lib.rs 246-251 won by the last directory that has the file
found_in_last_include(f, incl, protobuf_path) ==
    LET hits == { i \in 1..Len(incl) : exists(f, join(incl[i], to_path(protobuf_path))) }
    IN  IF hits = {} THEN [some |-> FALSE, val |-> <<>>]
        ELSE [some |-> TRUE,
              val |-> join(incl[CHOOSE i \in hits : \A j \in hits : j <= i],
                           to_path(protobuf_path))]

\* lib.rs 246-251: the first include directory that has the file
found_in_include(f, incl, protobuf_path) ==
    LET hits == { i \in 1..Len(incl) : exists(f, join(incl[i], to_path(protobuf_path))) }
    IN  IF hits = {} THEN [some |-> FALSE, val |-> <<>>]
        ELSE [some |-> TRUE, val |-> join(incl[Min(hits)], to_path(protobuf_path))]

(***************************************************************************)
(* Returns.                                                                *)
(***************************************************************************)
\* The display paths of the files whose add_file_content call is in progress.
FilesInProgress(st) == [n \in 1..Len(st) |-> st[n].fs_path]

\* Ok(()) reaches the caller: the loop of lib.rs 218-220 of the frame on top
\* of `callers`, or add_fs_file (lib.rs 297-298) and the loop of lib.rs 330-332.
ReturnOk(callers, protobuf_path) ==
    /\ IF callers = <<>>
       THEN /\ stack' = <<>>
            /\ relative_paths' = Append(relative_paths, protobuf_path)
            /\ next_input' = next_input + 1
       ELSE /\ stack' = [callers EXCEPT ![Len(callers)].i = @ + 1]
            /\ UNCHANGED <<relative_paths, next_input>>
    /\ UNCHANGED <<outcome, error, context>>

\* an error that ends the failing input only: the loop of lib.rs 330-332 goes on
Fail_goes_on(e, files) ==
    /\ outcome' = outcome
    /\ error' = e
    /\ context' = files
    /\ stack' = <<>>
    /\ next_input' = next_input + 1
    /\ UNCHANGED relative_paths

\* Err(e): every `?` on the way (lib.rs 219, 249, 297, 331) hands it on as it
\* is.  `files` are the files add_file_content was processing when e arose.
Fail(e, files) ==
    /\ outcome' = "err"
    /\ error' = e
    /\ context' = files
    /\ stack' = <<>>
    /\ UNCHANGED <<relative_paths, next_input>>

(***************************************************************************)
(* Run's methods.                                                          *)
(***************************************************************************)
\* lib.rs 207-220: parse, then enter the loop over the imports
add_file_content(protobuf_path, fs_path, content) ==
    LET r == parse(content)
    IN  /\ parses' = Append(parses, [protobuf_path |-> protobuf_path,
                                     fs_path |-> fs_path, content |-> content,
                                     depth |-> Len(stack)])
        /\ IF r.ok
           THEN /\ Len(stack) < MaxDepth
                /\ stack' = Append(stack, [protobuf_path |-> protobuf_path,
                                           fs_path |-> fs_path,
                                           parsed |-> r.val, i |-> 1])
                /\ UNCHANGED <<outcome, error, context, relative_paths, next_input>>
           ELSE Fail(WithFileError(fs_path, LocatedSyntaxError),
                     Append(FilesInProgress(stack), fs_path))

\* add_file without the lookup of lib.rs 197-199
add_file_always_reads(protobuf_path, fs_path) ==
    LET content == read_to_string(fs, fs_path)
    IN  /\ reads' = Append(reads, fs_path)
        /\ IF content.ok
           THEN add_file_content(protobuf_path, fs_path, content.val)
           ELSE /\ Fail(CouldNotReadFile(fs_path), FilesInProgress(stack))
                /\ UNCHANGED parses

\* add_file reporting a file that is not there as not found in the import path
add_file_missing_is_not_found(protobuf_path, fs_path) ==
    IF contains_key(parsed_files, protobuf_path)
    THEN /\ ReturnOk(stack, protobuf_path)
         /\ UNCHANGED <<reads, parses>>
    ELSE LET content == read_to_string(fs, fs_path)
         IN  /\ reads' = Append(reads, fs_path)
             /\ IF content.ok
                THEN add_file_content(protobuf_path, fs_path, content.val)
                ELSE /\ Fail(IF exists(fs, fs_path) THEN CouldNotReadFile(fs_path)
                             ELSE FileNotFoundInImportPath(protobuf_path),
                             FilesInProgress(stack))
                     /\ UNCHANGED parses

\* lib.rs 196-205
add_file(protobuf_path, fs_path) ==
    IF contains_key(parsed_files, protobuf_path)
    THEN /\ ReturnOk(stack, protobuf_path)
         /\ UNCHANGED <<reads, parses>>
    ELSE LET content == read_to_string(fs, fs_path)
         IN  /\ reads' = Append(reads, fs_path)
             /\ IF content.ok
                THEN add_file_content(protobuf_path, fs_path, content.val)
                ELSE /\ Fail(CouldNotReadFile(fs_path), FilesInProgress(stack))
                     /\ UNCHANGED parses

\* add_imported_file without the lookup of lib.rs 242-244
add_imported_file_no_lookup(protobuf_path) ==
    LET found == found_in_include(fs, includes, protobuf_path)
        text == embedded(protobuf_path)
    IN  IF found.some
        THEN add_file(protobuf_path, found.val)
        ELSE IF text.some
        THEN /\ add_file_content(protobuf_path, to_path(protobuf_path), text.val)
             /\ UNCHANGED reads
        ELSE /\ Fail(FileNotFoundInImportPath(protobuf_path), FilesInProgress(stack))
             /\ UNCHANGED <<reads, parses>>

\* add_imported_file with the embedded table consulted before the include
\* directories
add_imported_file_embedded_first(protobuf_path) ==
    LET found == found_in_include(fs, includes, protobuf_path)
        text == embedded(protobuf_path)
    IN  IF contains_key(parsed_files, protobuf_path)
        THEN /\ ReturnOk(stack, protobuf_path)
             /\ UNCHANGED <<reads, parses>>
        ELSE IF text.some
        THEN /\ add_file_content(protobuf_path, to_path(protobuf_path), text.val)
             /\ UNCHANGED reads
        ELSE IF found.some
        THEN add_file(protobuf_path, found.val)
        ELSE /\ Fail(FileNotFoundInImportPath(protobuf_path), FilesInProgress(stack))
             /\ UNCHANGED <<reads, parses>>

\* add_imported_file refusing a path whose add_file_content is in progress
add_imported_file_refuses_cycles(protobuf_path) ==
    LET found == found_in_include(fs, includes, protobuf_path)
        text == embedded(protobuf_path)
    IN  IF contains_key(parsed_files, protobuf_path)
        THEN /\ ReturnOk(stack, protobuf_path)
             /\ UNCHANGED <<reads, parses>>
        ELSE IF \E k \in 1..Len(stack) : stack[k].protobuf_path = protobuf_path
        THEN /\ Fail(Layer("CyclicImport", protobuf_path), FilesInProgress(stack))
             /\ UNCHANGED <<reads, parses>>
        ELSE IF found.some
        THEN add_file(protobuf_path, found.val)
        ELSE IF text.some
        THEN /\ add_file_content(protobuf_path, to_path(protobuf_path), text.val)
             /\ UNCHANGED reads
        ELSE /\ Fail(FileNotFoundInImportPath(protobuf_path), FilesInProgress(stack))
             /\ UNCHANGED <<reads, parses>>

\* add_imported_file passing over an import that is nowhere to be found
add_imported_file_skips_missing(protobuf_path) ==
    LET found == found_in_include(fs, includes, protobuf_path)
        text == embedded(protobuf_path)
    IN  IF contains_key(parsed_files, protobuf_path)
        THEN /\ ReturnOk(stack, protobuf_path)
             /\ UNCHANGED <<reads, parses>>
        ELSE IF found.some
        THEN add_file(protobuf_path, found.val)
        ELSE IF text.some
        THEN /\ add_file_content(protobuf_path, to_path(protobuf_path), text.val)
             /\ UNCHANGED reads
        ELSE /\ ReturnOk(stack, protobuf_path)
             /\ UNCHANGED <<reads, parses>>

\* lib.rs 241-277
add_imported_file(protobuf_path) ==
    LET found == found_in_include(fs, includes, protobuf_path)
        text == embedded(protobuf_path)
    IN  IF contains_key(parsed_files, protobuf_path)
        THEN /\ ReturnOk(stack, protobuf_path)
             /\ UNCHANGED <<reads, parses>>
        ELSE IF found.some
        THEN add_file(protobuf_path, found.val)
        ELSE IF text.some
        THEN /\ add_file_content(protobuf_path, to_path(protobuf_path), text.val)
             /\ UNCHANGED reads
        ELSE /\ Fail(FileNotFoundInImportPath(protobuf_path), FilesInProgress(stack))
             /\ UNCHANGED <<reads, parses>>

\* lib.rs 288-306
add_fs_file(fs_path) ==
    LET rel == relative_path(includes, fs_path)
    IN  IF rel.some
        THEN add_file(rel.val, fs_path)
        ELSE /\ Fail(FileMustResideInImportPath(fs_path), <<>>)
             /\ UNCHANGED <<reads, parses>>

(***************************************************************************)
(* The steps of a session.                                                 *)
(***************************************************************************)
\* lib.rs 330-332: the next input
input_loop ==
    /\ outcome = "running"
    /\ stack = <<>>
    /\ next_input <= Len(input)
    /\ add_fs_file(input[next_input])
    /\ called' = [op |-> "add_fs_file", arg |-> input[next_input]]
    /\ UNCHANGED <<fs, includes, input, parsed_files, file_descriptors, converts>>

\* lib.rs 218-220: the next import of the file the innermost call is at
import_loop ==
    /\ outcome = "running"
    /\ stack # <<>>
    /\ stack[Len(stack)].i <= Len(stack[Len(stack)].parsed.imports)
    /\ add_imported_file(stack[Len(stack)].parsed.imports[stack[Len(stack)].i])
    /\ called' = [op |-> "add_imported_file",
                  arg |-> stack[Len(stack)].parsed.imports[stack[Len(stack)].i]]
    /\ UNCHANGED <<fs, includes, input, parsed_files, file_descriptors, converts>>

\* add_file_content with the map of lib.rs 222 kept from the file converted
\* before instead of created empty
convert_and_insert_stale_deps ==
    /\ outcome = "running"
    /\ stack # <<>>
    /\ LET top == stack[Len(stack)]
           before == IF converts = <<>> THEN <<>> ELSE converts[Len(converts)].deps
           kept == [n \in 1..Len(before) |->
                       [key |-> before[n].descriptor.name, val |-> before[n]]]
           deps == get_all_deps_already_parsed(parsed_files, top.parsed,
                                               [panic |-> FALSE, map |-> kept,
                                                clones |-> 0])
           this_file_deps == values(deps.map)
           descriptor == file_descriptor(top.protobuf_path, top.parsed, this_file_deps)
       IN  /\ top.i > Len(top.parsed.imports)
           /\ IF deps.panic
              THEN /\ outcome' = "panic"
                   /\ stack' = <<>>
                   /\ UNCHANGED <<parsed_files, converts, error, context,
                                  relative_paths, next_input>>
              ELSE /\ converts' = Append(converts, [protobuf_path |-> top.protobuf_path,
                                                    parsed |-> top.parsed,
                                                    deps |-> this_file_deps,
                                                    clones |-> deps.clones])
                   /\ IF descriptor.ok
                      THEN /\ parsed_files' = insert(parsed_files, top.protobuf_path,
                                                  [parsed |-> top.parsed,
                                                   descriptor |-> descriptor.val])
                           /\ ReturnOk(SubSeq(stack, 1, Len(stack) - 1), top.protobuf_path)
                      ELSE /\ Fail(WithFileError(top.fs_path, SemanticError),
                                   FilesInProgress(stack))
                           /\ UNCHANGED parsed_files
    /\ called' = [op |-> "add_file_content", arg |-> stack[Len(stack)].protobuf_path]
    /\ UNCHANGED <<fs, includes, input, file_descriptors, reads, parses>>

\* add_file_content with the insert of lib.rs 233-236 done whether or not the
\* conversion succeeded
convert_and_insert_unconverted ==
    /\ outcome = "running"
    /\ stack # <<>>
    /\ LET top == stack[Len(stack)]
           deps == get_all_deps_already_parsed(parsed_files, top.parsed,
                                               [panic |-> FALSE, map |-> <<>>,
                                                clones |-> 0])
           this_file_deps == values(deps.map)
           descriptor == file_descriptor(top.protobuf_path, top.parsed, this_file_deps)
       IN  /\ top.i > Len(top.parsed.imports)
           /\ IF deps.panic
              THEN /\ outcome' = "panic"
                   /\ stack' = <<>>
                   /\ UNCHANGED <<parsed_files, converts, error, context,
                                  relative_paths, next_input>>
              ELSE /\ converts' = Append(converts, [protobuf_path |-> top.protobuf_path,
                                                    parsed |-> top.parsed,
                                                    deps |-> this_file_deps,
                                                    clones |-> deps.clones])
                   /\ parsed_files' = insert(parsed_files, top.protobuf_path,
                                             [parsed |-> top.parsed,
                                              descriptor |-> descriptor.val])
                   /\ IF descriptor.ok
                      THEN ReturnOk(SubSeq(stack, 1, Len(stack) - 1), top.protobuf_path)
                      ELSE Fail(WithFileError(top.fs_path, SemanticError),
                                FilesInProgress(stack))
    /\ called' = [op |-> "add_file_content", arg |-> stack[Len(stack)].protobuf_path]
    /\ UNCHANGED <<fs, includes, input, file_descriptors, reads, parses>>

\* lib.rs 222-238: the imports of the innermost call are resolved; convert,
\* insert and return to the caller
convert_and_insert ==
    /\ outcome = "running"
    /\ stack # <<>>
    /\ LET top == stack[Len(stack)]
           deps == get_all_deps_already_parsed(parsed_files, top.parsed,
                                               [panic |-> FALSE, map |-> <<>>,
                                                clones |-> 0])
           this_file_deps == values(deps.map)
           descriptor == file_descriptor(top.protobuf_path, top.parsed, this_file_deps)
       IN  /\ top.i > Len(top.parsed.imports)
           /\ IF deps.panic
              THEN /\ outcome' = "panic"
                   /\ stack' = <<>>
                   /\ UNCHANGED <<parsed_files, converts, error, context,
                                  relative_paths, next_input>>
              ELSE /\ converts' = Append(converts, [protobuf_path |-> top.protobuf_path,
                                                    parsed |-> top.parsed,
                                                    deps |-> this_file_deps,
                                                    clones |-> deps.clones])
                   /\ IF descriptor.ok
                      THEN /\ parsed_files' = insert(parsed_files, top.protobuf_path,
                                                  [parsed |-> top.parsed,
                                                   descriptor |-> descriptor.val])
                           /\ ReturnOk(SubSeq(stack, 1, Len(stack) - 1), top.protobuf_path)
                      ELSE /\ Fail(WithFileError(top.fs_path, SemanticError),
                                   FilesInProgress(stack))
                           /\ UNCHANGED parsed_files
    /\ called' = [op |-> "add_file_content", arg |-> stack[Len(stack)].protobuf_path]
    /\ UNCHANGED <<fs, includes, input, file_descriptors, reads, parses>>

\* the drain of lib.rs 334-338 taking the descriptors of the inputs only
finish_inputs_only ==
    /\ outcome = "running"
    /\ stack = <<>>
    /\ next_input > Len(input)
    /\ file_descriptors' = [n \in 1..Len(relative_paths) |->
                               get(parsed_files, relative_paths[n]).descriptor]
    /\ outcome' = "ok"
    /\ called' = [op |-> "parse_and_typecheck", arg |-> <<>>]
    /\ UNCHANGED <<fs, includes, input, parsed_files, stack, next_input, relative_paths,
                   error, context, reads, parses, converts>>

\* the drain of lib.rs 334-338 run from the newest entry to the oldest
finish_reversed ==
    /\ outcome = "running"
    /\ stack = <<>>
    /\ next_input > Len(input)
    /\ file_descriptors' = [n \in 1..Len(parsed_files) |->
                               values(parsed_files)[Len(parsed_files) + 1 - n].descriptor]
    /\ outcome' = "ok"
    /\ called' = [op |-> "parse_and_typecheck", arg |-> <<>>]
    /\ UNCHANGED <<fs, includes, input, parsed_files, stack, next_input, relative_paths,
                   error, context, reads, parses, converts>>

\* the drain of lib.rs 334-338 listing the descriptors of the inputs before
\* those of the files they import
finish_inputs_first ==
    /\ outcome = "running"
    /\ stack = <<>>
    /\ next_input > Len(input)
    /\ LET given == { relative_paths[k] : k \in 1..Len(relative_paths) }
           first == SelectSeq(values(parsed_files), LAMBDA v : v.descriptor.name \in given)
           rest == SelectSeq(values(parsed_files), LAMBDA v : v.descriptor.name \notin given)
       IN  file_descriptors' = [n \in 1..Len(parsed_files) |-> (first \o rest)[n].descriptor]
    /\ outcome' = "ok"
    /\ called' = [op |-> "parse_and_typecheck", arg |-> <<>>]
    /\ UNCHANGED <<fs, includes, input, parsed_files, stack, next_input, relative_paths,
                   error, context, reads, parses, converts>>

\* lib.rs 334-343: every input is added; drain the cache
finish ==
    /\ outcome = "running"
    /\ stack = <<>>
    /\ next_input > Len(input)
    /\ file_descriptors' = [n \in 1..Len(parsed_files) |-> values(parsed_files)[n].descriptor]
    /\ outcome' = "ok"
    /\ called' = [op |-> "parse_and_typecheck", arg |-> <<>>]
    /\ UNCHANGED <<fs, includes, input, parsed_files, stack, next_input, relative_paths,
                   error, context, reads, parses, converts>>

\* A caller of Run's methods other than parse_and_typecheck: add_imported_file
\* called directly for the next path of `input`.
direct_import ==
    /\ outcome = "running"
    /\ stack = <<>>
    /\ next_input <= Len(input)
    /\ add_imported_file(input[next_input])
    /\ called' = [op |-> "add_imported_file", arg |-> input[next_input]]
    /\ UNCHANGED <<fs, includes, input, parsed_files, file_descriptors, converts>>

Next == input_loop \/ import_loop \/ convert_and_insert \/ finish

NextRun == Next \/ direct_import

(***************************************************************************)
(* The sessions: the arguments of parse_and_typecheck and the files on     *)
(* disk when it is called.                                                 *)
(***************************************************************************)
T == <<"t">>
A == <<"a">>
B == <<"b">>
C == <<"c">>

SeqsUpTo(S, lo, hi) == UNION { [1..k -> S] : k \in lo..hi }

Locations == { D1 \o T, D1 \o A, D1 \o B, D1 \o C, D2 \o A, A, D1 \o AnyProto }

\* Import graphs over t, a, b, c under d1: chains, diamonds, cycles.
ImportsOfT == { <<A, B>>, <<B, A>>, <<A>>, <<T>> }
ImportsOfA == { <<>>, <<C>>, <<C, AnyProto>>, <<B>>, <<T>> }
ImportsOfB == { <<>>, <<C>>, <<A>> }
ImportsOfC == { <<>>, <<AnyProto>> }
Faults == { [file |-> "none", kind |-> "none"] } \cup
          [file : {"t", "a", "b", "c"},
           kind : {"syntax", "semantic", "unreadable", "absent"}]

FileOf(name, imports, fault) ==
    IF fault.file # name THEN Text(imports, name)
    ELSE CASE fault.kind = "syntax" -> SyntaxError
           [] fault.kind = "semantic" -> Text(imports, "semantic_error")
           [] fault.kind = "unreadable" -> Unreadable
           [] OTHER -> Absent

GraphFs(it, ia, ib, ic, fault) ==
    [loc \in Locations |->
        CASE loc = D1 \o T -> FileOf("t", it, fault)
          [] loc = D1 \o A -> FileOf("a", ia, fault)
          [] loc = D1 \o B -> FileOf("b", ib, fault)
          [] loc = D1 \o C -> FileOf("c", ic, fault)
          [] OTHER -> Absent]

GraphFilesystems ==
    { GraphFs(it, ia, ib, ic, fault) :
        it \in ImportsOfT, ia \in ImportsOfA, ib \in ImportsOfB, ic \in ImportsOfC,
        fault \in Faults }

\* The same canonical path in several include directories, and on disk
\* beside the embedded table.
PathFs(d1a, d2a, cwda, d1any) ==
    [loc \in Locations |->
        CASE loc = D1 \o A -> d1a
          [] loc = D2 \o A -> d2a
          [] loc = A -> cwda
          [] loc = D1 \o AnyProto -> d1any
          [] OTHER -> Absent]

PathFilesystems ==
    { PathFs(d1a, d2a, cwda, d1any) :
        d1a \in { Absent, Text(<<AnyProto>>, "d1_a"), Text(<<NearMiss>>, "d1_a") },
        d2a \in { Absent, Text(<<>>, "d2_a"), Text(<<A>>, "d2_a") },
        cwda \in { Absent, Text(<<>>, "cwd_a") },
        d1any \in { Absent, Text(<<>>, "disk_any"), Unreadable } }

InitRun ==
    /\ parsed_files = <<>>
    /\ stack = <<>>
    /\ next_input = 1
    /\ relative_paths = <<>>
    /\ outcome = "running"
    /\ file_descriptors = <<>>
    /\ error = <<>>
    /\ reads = <<>>
    /\ parses = <<>>
    /\ converts = <<>>
    /\ context = <<>>
    /\ called = [op |-> "none", arg |-> <<>>]

InitGraph ==
    /\ fs \in GraphFilesystems
    /\ includes = <<D1>>
    /\ input \in SeqsUpTo({ D1 \o T, D1 \o B }, 1, MaxInputs)

InitPaths ==
    /\ fs \in PathFilesystems
    /\ includes \in SeqsUpTo({ Dot, D1, D2 }, 0, MaxIncludes)
    /\ input \in SeqsUpTo({ D1 \o A, D2 \o A, A, AbsInput }, 1, MaxInputs)

Init == (InitGraph \/ InitPaths) /\ InitRun

Spec == Init /\ [][Next]_vars

\* Run driven method by method: each path of `input` is given to add_fs_file
\* or to add_imported_file.
InitCalls ==
    /\ fs \in PathFilesystems
    /\ includes \in SeqsUpTo({ Dot, D1, D2 }, 0, MaxIncludes)
    /\ input \in SeqsUpTo({ A, AnyProto, NearMiss, GP("type.proto") }, 1, MaxInputs)
    /\ InitRun

SpecRun == InitCalls /\ [][NextRun]_vars

\* Sessions that run on: parse_and_typecheck is sequential code, and a step
\* that can be taken is taken.  The import graphs are those above, with at
\* most a syntax error in a and with c importing an embedded file; of the
\* files of the same canonical path, a in d1 and in d2.
LiveFaults == { [file |-> "none", kind |-> "none"], [file |-> "a", kind |-> "syntax"] }

LiveSessions ==
    \/ /\ fs \in { GraphFs(it, ia, ib, ic, fault) :
                      it \in ImportsOfT, ia \in ImportsOfA, ib \in ImportsOfB,
                      ic \in { <<AnyProto>> }, fault \in LiveFaults }
       /\ includes = <<D1>>
       /\ input \in SeqsUpTo({ D1 \o T, D1 \o B }, 1, MaxInputs)
    \/ /\ fs \in { PathFs(d1a, d2a, Absent, Absent) :
                      d1a \in { Absent, Text(<<AnyProto>>, "d1_a") },
                      d2a \in { Text(<<>>, "d2_a"), Text(<<A>>, "d2_a") } }
       /\ includes \in SeqsUpTo({ D1, D2 }, 1, MaxIncludes)
       /\ input \in SeqsUpTo({ D1 \o A, D2 \o A }, 1, MaxInputs)

InitLive == LiveSessions /\ InitRun

SpecLive == InitLive /\ [][Next]_vars /\ WF_vars(Next)

\* Every session above, with every call of Run's methods.
SpecAll == (Init \/ InitCalls) /\ [][NextRun]_vars

(***************************************************************************)
(* Vocabulary of the properties.                                           *)
(***************************************************************************)
Range(s) == { s[i] : i \in 1..Len(s) }
Cached(protobuf_path) == \E i \in 1..Len(parsed_files) : parsed_files[i].key = protobuf_path
Top == stack[Len(stack)]
NoPath == [some |-> FALSE, val |-> <<>>]

\* The canonical path the next add_imported_file or add_fs_file call is for.
NextCallPath ==
    IF outcome # "running" THEN NoPath
    ELSE IF stack # <<>>
    THEN IF Top.i <= Len(Top.parsed.imports)
         THEN [some |-> TRUE, val |-> Top.parsed.imports[Top.i]]
         ELSE NoPath
    ELSE IF next_input <= Len(input)
    THEN relative_path(includes, input[next_input])
    ELSE NoPath

\* The call returned Ok to its caller, which went on.
CallReturnedOk(protobuf_path) ==
    /\ outcome' = "running"
    /\ IF stack = <<>>
       THEN /\ stack' = <<>>
            /\ relative_paths' = Append(relative_paths, protobuf_path)
            /\ next_input' = next_input + 1
       ELSE /\ stack' = [stack EXCEPT ![Len(stack)].i = @ + 1]
            /\ relative_paths' = relative_paths
            /\ next_input' = next_input

(***************************************************************************)
(* C1: once a canonical path is in the cache, an add_fs_file (through      *)
(* add_file) or add_imported_file call for it returns success, reads no    *)
(* file, calls neither the parser nor the converter, and leaves the cache, *)
(* entries and order, as it was.                                           *)
(***************************************************************************)
C1_CachedPathIsNoOp ==
    [][ (NextCallPath.some /\ Cached(NextCallPath.val)) =>
            /\ parsed_files' = parsed_files
            /\ reads' = reads
            /\ parses' = parses
            /\ converts' = converts
            /\ CallReturnedOk(NextCallPath.val) ]_vars

\* An input given twice and a file imported by two cached files: both the
\* second add_fs_file and the second add_imported_file met a cached path.
C1_Witness ==
    /\ outcome = "ok"
    /\ Len(relative_paths) = 2
    /\ relative_paths[1] = relative_paths[2]
    /\ \E i, j \in 1..Len(parsed_files) :
          /\ i # j
          /\ Range(parsed_files[i].val.parsed.imports)
                 \cap Range(parsed_files[j].val.parsed.imports) # {}
    /\ Len(parses) = Len(parsed_files)

(***************************************************************************)
(* The import graph of a session: the canonical paths, with the imports    *)
(* the parser found in the files parsed for them.                          *)
(***************************************************************************)
ParsesOf(protobuf_path) ==
    { i \in 1..Len(parses) : parses[i].protobuf_path = protobuf_path }
EntriesOf(protobuf_path) ==
    { i \in 1..Len(parsed_files) : parsed_files[i].key = protobuf_path }
ParsedImports(protobuf_path) ==
    UNION { Range(parse(parses[i].content).val.imports) : i \in ParsesOf(protobuf_path) }

RECURSIVE ImportClosure(_)
ImportClosure(S) ==
    LET S2 == S \cup UNION { ParsedImports(q) : q \in S }
    IN  IF S2 = S THEN S ELSE ImportClosure(S2)

SessionAcyclic ==
    \A i \in 1..Len(parses) :
        parses[i].protobuf_path \notin ImportClosure(ParsedImports(parses[i].protobuf_path))

ReachableFromInputs == ImportClosure(Range(relative_paths))

EntryOf(protobuf_path) ==
    parsed_files[CHOOSE i \in 1..Len(parsed_files) : parsed_files[i].key = protobuf_path].val

RECURSIVE CacheClosure(_)
CacheClosure(S) ==
    LET S2 == S \cup UNION { Range(EntryOf(q).parsed.imports) : q \in { x \in S : Cached(x) } }
    IN  IF S2 = S THEN S ELSE CacheClosure(S2)

(***************************************************************************)
(* C3: the dependency pairs add_file_content hands to the converter for a  *)
(* file F are exactly the cache entries of the files reachable from F by   *)
(* one or more imports: F itself is not among them, nor is a cached file   *)
(* that F does not import, directly or transitively.                       *)
(***************************************************************************)
C3_DepsAreTheImportClosure ==
    [][ converts' # converts =>
          LET call == converts'[Len(converts')]
              reachable == CacheClosure(Range(call.parsed.imports))
          IN  /\ \A q \in reachable : Cached(q)
              /\ Range(call.deps) = { EntryOf(q) : q \in reachable }
              /\ Len(call.deps) = Cardinality(reachable)
              /\ \A i \in 1..Len(call.deps) :
                    ~(/\ call.deps[i].descriptor.name = call.protobuf_path
                      /\ call.deps[i].parsed = call.parsed) ]_vars

\* A file with imports was converted while the cache held a file, parsed
\* for an earlier input, that it does not import.
C3_Witness ==
    \E n \in 1..Len(converts) :
        /\ converts[n].deps # <<>>
        /\ Cached(converts[n].protobuf_path)
        /\ \E k \in 1..Len(parsed_files) :
              /\ \A i \in EntriesOf(converts[n].protobuf_path) : k < i
              /\ parsed_files[k].val \notin Range(converts[n].deps)
              /\ parsed_files[k].key \in Range(relative_paths)

(***************************************************************************)
(* Include directories, as the properties see them.                        *)
(***************************************************************************)
Least(S) == CHOOSE x \in S : \A y \in S : x <= y

\* The include directories that hold a file at a canonical path.
Holders(protobuf_path) ==
    { i \in 1..Len(includes) : FileAt(fs, includes[i] \o protobuf_path).st # "absent" }
FirstHolderPath(protobuf_path) == includes[Least(Holders(protobuf_path))] \o protobuf_path

\* A filesystem path can be written relative to an include directory.
Expressible(path, dir) ==
    IF dir = <<".">> THEN path = <<>> \/ path[1] # "/"
    ELSE Len(dir) <= Len(path) /\ \A k \in 1..Len(dir) : path[k] = dir[k]
RelativeTo(path, dir) ==
    IF dir = <<".">> THEN path
    ELSE [k \in 1..(Len(path) - Len(dir)) |-> path[k + Len(dir)]]
ExpressibleUnder(path) == { i \in 1..Len(includes) : Expressible(path, includes[i]) }
CanonicalOf(path) == RelativeTo(path, includes[Least(ExpressibleUnder(path))])

(***************************************************************************)
(* C4, as claimed: for every canonical path in the cache, input or import, *)
(* that two or more include directories hold, the File Model cached is     *)
(* that of the file in the include directory listed first.                 *)
(***************************************************************************)
C4_FirstIncludeWinsForEveryPath ==
    \A n \in 1..Len(parsed_files) :
        Cardinality(Holders(parsed_files[n].key)) >= 2 =>
            parsed_files[n].val.parsed
                = parse(FileAt(fs, FirstHolderPath(parsed_files[n].key))).val

(***************************************************************************)
(* C4, amended: first match wins for imports: a file parsed for an import  *)
(* that some include directory holds is the file of the first include      *)
(* directory that holds it.  A top-level input is parsed from its own      *)
(* filesystem path, under the canonical path that is this path relative to *)
(* the first include directory it can be expressed under.                  *)
(***************************************************************************)
C4_FirstIncludeWinsForImports ==
    \A n \in 1..Len(parses) :
        LET call == parses[n]
        IN  IF call.depth > 0
            THEN Holders(call.protobuf_path) # {} =>
                    /\ call.fs_path = FirstHolderPath(call.protobuf_path)
                    /\ call.content = FileAt(fs, FirstHolderPath(call.protobuf_path))
            ELSE /\ call.fs_path \in Range(input)
                 /\ call.content = FileAt(fs, call.fs_path)
                 /\ ExpressibleUnder(call.fs_path) # {}
                 /\ call.protobuf_path = CanonicalOf(call.fs_path)

\* An import was parsed that two include directories hold with different
\* contents, in a session whose input lies in the second of them.
C4_Witness ==
    \E n \in 1..Len(parses) :
        /\ parses[n].depth > 0
        /\ \E i, j \in Holders(parses[n].protobuf_path) :
              FileAt(fs, includes[i] \o parses[n].protobuf_path)
                  # FileAt(fs, includes[j] \o parses[n].protobuf_path)
        /\ parses[1].depth = 0
        /\ parses[1].fs_path # FirstHolderPath(parses[1].protobuf_path)

(***************************************************************************)
(* C5: add_imported_file on an uncached path takes the embedded text only  *)
(* when no include directory holds a file at the path (a file on disk      *)
(* shadows the embedded copy); when no include directory holds it and the  *)
(* path is none of the 12 embedded paths the call fails with               *)
(* FileNotFoundInImportPath and the cache stays as it was.  With no        *)
(* include directory at all, a call for an embedded path has the path      *)
(* cached when it returns and every error is FileNotFoundInImportPath for  *)
(* a path that is not embedded (or add_fs_file's FileMustResideInImport-   *)
(* Path).                                                                  *)
(***************************************************************************)
C5_EmbeddedIsTheLastResort ==
    /\ [][ (called'.op = "add_imported_file" /\ ~Cached(called'.arg)) =>
             LET path == called'.arg
                 newest == parses'[Len(parses')]
             IN  /\ Holders(path) # {} =>
                       /\ reads' = Append(reads, FirstHolderPath(path))
                       /\ parses' # parses =>
                             /\ newest.fs_path = FirstHolderPath(path)
                             /\ newest.content = FileAt(fs, FirstHolderPath(path))
                 /\ (Holders(path) = {} /\ path \in EmbeddedPaths) =>
                       /\ reads' = reads
                       /\ parses' = Append(parses, [protobuf_path |-> path, fs_path |-> path,
                                                    content |-> EmbeddedText(path),
                                                    depth |-> Len(stack)])
                       /\ outcome' = "running"
                 /\ (Holders(path) = {} /\ path \notin EmbeddedPaths) =>
                       /\ outcome' = "err"
                       /\ error' = <<[kind |-> "FileNotFoundInImportPath", arg |-> path]>>
                       /\ parsed_files' = parsed_files
                       /\ reads' = reads
                       /\ parses' = parses ]_vars
    /\ [](includes = <<>> =>
             /\ (/\ called.op = "add_imported_file"
                 /\ called.arg \in EmbeddedPaths
                 /\ outcome = "running"
                 /\ stack = <<>>) => Cached(called.arg)
             /\ outcome = "err" =>
                   \/ error[1].kind = "FileMustResideInImportPath"
                   \/ /\ error[1].kind = "FileNotFoundInImportPath"
                      /\ error[1].arg \notin EmbeddedPaths)

\* With no include directory, an embedded file and its embedded imports are
\* cached and the next call, for a path off the table by one letter, failed.
C5_Witness ==
    /\ includes = <<>>
    /\ Cached(GP("type.proto"))
    /\ Cached(AnyProto)
    /\ outcome = "err"
    /\ error = <<[kind |-> "FileNotFoundInImportPath", arg |-> NearMiss]>>

(***************************************************************************)
(* C6: add_fs_file fails with FileMustResideInImportPath exactly when the  *)
(* input's path can be expressed under no include directory (always, with  *)
(* no include directory); then no file is read, the parser is not called   *)
(* and the cache is unchanged.  The include directory "." accepts every    *)
(* relative path and makes the path itself the canonical path.             *)
(***************************************************************************)
C6_MustResideInImportPath ==
    [][ called'.op = "add_fs_file" =>
          LET path == called'.arg
              under == ExpressibleUnder(path)
          IN  /\ (outcome' = "err" /\ error'[1].kind = "FileMustResideInImportPath")
                     <=> under = {}
              /\ under = {} =>
                    /\ error' = <<[kind |-> "FileMustResideInImportPath", arg |-> path]>>
                    /\ reads' = reads
                    /\ parses' = parses
                    /\ parsed_files' = parsed_files
              /\ \A i \in 1..Len(includes) :
                    (includes[i] = <<".">> /\ path[1] # "/") => i \in under
              /\ (under # {} /\ includes[Least(under)] = <<".">>) =>
                    /\ parses' # parses => parses'[Len(parses')].protobuf_path = path
                    /\ relative_paths' # relative_paths =>
                          relative_paths'[Len(relative_paths')] = path ]_vars

\* A two-component path was accepted unchanged through ".", then an absolute
\* input was refused although "." is an include directory.
C6_Witness ==
    /\ outcome = "err"
    /\ error[1].kind = "FileMustResideInImportPath"
    /\ <<".">> \in Range(includes)
    /\ Len(relative_paths) = 1
    /\ relative_paths[1] = input[1]
    /\ Len(input[1]) = 2

(***************************************************************************)
(* C7: on success relative_paths has one element per input, in input       *)
(* order and not deduplicated; the i-th is the i-th input relative to the  *)
(* first include directory, in configured order, that it can be expressed  *)
(* under.                                                                  *)
(***************************************************************************)
C7_RelativePathsFollowInputs ==
    outcome = "ok" =>
        /\ Len(relative_paths) = Len(input)
        /\ \A i \in 1..Len(input) :
              /\ ExpressibleUnder(input[i]) # {}
              /\ relative_paths[i] = CanonicalOf(input[i])

\* Two different inputs with the same canonical path, the first expressible
\* under both include directories.
C7_Witness ==
    /\ outcome = "ok"
    /\ Len(input) = 2
    /\ input[1] # input[2]
    /\ relative_paths[1] = relative_paths[2]
    /\ Cardinality(ExpressibleUnder(input[1])) = 2

(***************************************************************************)
(* C8: on success file_descriptors holds exactly one descriptor for every  *)
(* canonical path that is an input or a transitive import of an input, and *)
(* nothing else: no path twice, and every element of relative_paths has    *)
(* its descriptor in the list.                                             *)
(***************************************************************************)
DescriptorNames == { file_descriptors[n].name : n \in 1..Len(file_descriptors) }

C8_DescriptorsCoverTheClosure ==
    outcome = "ok" =>
        /\ DescriptorNames = ReachableFromInputs
        /\ Cardinality(DescriptorNames) = Len(file_descriptors)
        /\ Range(relative_paths) \subseteq DescriptorNames

\* One input given twice, with three files behind it.
C8_Witness ==
    /\ outcome = "ok"
    /\ Len(relative_paths) = 2
    /\ Cardinality(Range(relative_paths)) = 1
    /\ Len(file_descriptors) = 4

(***************************************************************************)
(* The order of the calls in the logs.                                     *)
(***************************************************************************)
ConvertsOf(protobuf_path) ==
    { n \in 1..Len(converts) : converts[n].protobuf_path = protobuf_path }
FirstParse(protobuf_path) == Least(ParsesOf(protobuf_path))
FirstConvert(protobuf_path) == Least(ConvertsOf(protobuf_path))

(***************************************************************************)
(* C9, as claimed: file_descriptors is in first-discovery order: of two    *)
(* files the one whose resolution was started first comes first.           *)
(***************************************************************************)
C9_FirstDiscoveryOrder ==
    outcome = "ok" =>
        \A i, j \in 1..Len(file_descriptors) :
            i < j => FirstParse(file_descriptors[i].name)
                         < FirstParse(file_descriptors[j].name)

(***************************************************************************)
(* C9, amended: file_descriptors is in the order in which the resolutions  *)
(* were completed: of two files the one whose imports were resolved and    *)
(* which was converted first comes first, so that a file whose resolution  *)
(* started first but which imports the other comes after it.               *)
(***************************************************************************)
C9_CompletionOrder ==
    outcome = "ok" =>
        /\ \A n \in 1..Len(file_descriptors) : ConvertsOf(file_descriptors[n].name) # {}
        /\ \A i, j \in 1..Len(file_descriptors) :
              i < j => FirstConvert(file_descriptors[i].name)
                           < FirstConvert(file_descriptors[j].name)

\* A file is listed before the file that imports it and was started first.
C9_Witness ==
    /\ outcome = "ok"
    /\ \E i, j \in 1..Len(file_descriptors) :
          /\ i < j
          /\ FirstParse(file_descriptors[j].name) < FirstParse(file_descriptors[i].name)
          /\ file_descriptors[i].name \in Range(file_descriptors[j].dependency)

(***************************************************************************)
(* C10, as claimed: an error that arises while add_file_content processes  *)
(* files X1 (top level), ..., Xn (innermost) reaches the caller in one     *)
(* WithFileError per file, the outermost naming X1 and the innermost Xn,   *)
(* around the error itself.                                                *)
(***************************************************************************)
C10_EveryFileInProgressWraps ==
    outcome = "err" =>
        /\ Len(error) = Len(context) + 1
        /\ \A n \in 1..Len(context) :
              error[n] = [kind |-> "WithFileError", arg |-> context[n]]

(***************************************************************************)
(* A top-level input that cannot be located: its path can be expressed     *)
(* under an include directory, but there is no file at it, no include      *)
(* directory holds a file at its canonical path and the canonical path is  *)
(* not in the embedded table.                                              *)
(***************************************************************************)
InputCannotBeLocated(path) ==
    /\ ExpressibleUnder(path) # {}
    /\ FileAt(fs, path).st = "absent"
    /\ Holders(CanonicalOf(path)) = {}
    /\ CanonicalOf(path) \notin EmbeddedPaths

(***************************************************************************)
(* C11, as claimed: add_fs_file for an input that cannot be located fails  *)
(* with FileNotFoundInImportPath, the error kind of an import that cannot  *)
(* be located.                                                             *)
(***************************************************************************)
C11_MissingInputIsNotFound ==
    [][ (called'.op = "add_fs_file" /\ InputCannotBeLocated(called'.arg)) =>
            /\ outcome' = "err"
            /\ error'[Len(error')].kind = "FileNotFoundInImportPath" ]_vars

(***************************************************************************)
(* C11, amended: add_fs_file for an input that cannot be located fails     *)
(* with CouldNotReadFile naming the input's filesystem path, after one     *)
(* attempt to read that path and without parsing or caching anything: the  *)
(* include directories are not searched for an input and the embedded      *)
(* table is not consulted.  FileNotFoundInImportPath is the error of       *)
(* add_imported_file only.                                                 *)
(***************************************************************************)
C11_MissingInputCouldNotBeRead ==
    [][ /\ (called'.op = "add_fs_file" /\ InputCannotBeLocated(called'.arg)) =>
              /\ outcome' = "err"
              /\ error' = <<[kind |-> "CouldNotReadFile", arg |-> called'.arg]>>
              /\ reads' = Append(reads, called'.arg)
              /\ parses' = parses
              /\ parsed_files' = parsed_files
        /\ (outcome' = "err" /\ error'[Len(error')].kind = "FileNotFoundInImportPath") =>
              called'.op = "add_imported_file" ]_vars

\* The second input of a session is a file that does not exist, under an
\* include directory, and the session failed on reading it.
C11_Witness ==
    /\ outcome = "err"
    /\ called.op = "add_fs_file"
    /\ InputCannotBeLocated(called.arg)
    /\ error[1].kind = "CouldNotReadFile"
    /\ Len(relative_paths) = 1

(***************************************************************************)
(* C12: the first failure ends the session.  Once a call has failed,       *)
(* parse_and_typecheck has returned that error and it stays the result;    *)
(* no file is read, parsed or converted after the failing step and the     *)
(* cache gets no further entry, so the remaining imports of the failing    *)
(* file and the later inputs are never processed; no descriptor is         *)
(* returned, not even for the inputs resolved before the failure.          *)
(***************************************************************************)
C12_FirstFailureAborts ==
    /\ [](error # <<>> =>
             /\ outcome = "err"
             /\ file_descriptors = <<>>
             /\ stack = <<>>)
    /\ [](outcome = "err" => error # <<>>)
    /\ [][ error # <<>> =>
             /\ error' = error
             /\ reads' = reads
             /\ parses' = parses
             /\ converts' = converts
             /\ parsed_files' = parsed_files
             /\ relative_paths' = relative_paths ]_vars
    /\ [][ (error = <<>> /\ error' # <<>>) =>
             /\ Len(reads') <= Len(reads) + 1
             /\ Len(parses') <= Len(parses) + 1
             /\ Len(converts') <= Len(converts) + 1
             /\ parsed_files' = parsed_files ]_vars

\* The first of two inputs was resolved and cached; the second failed in an
\* import of an import, leaving a later import of the failing file's
\* importer unparsed, and nothing is returned.
C12_Witness ==
    /\ outcome = "err"
    /\ Len(input) = 2
    /\ Len(relative_paths) = 1
    /\ Cached(relative_paths[1])
    /\ Len(context) >= 2
    /\ file_descriptors = <<>>
    /\ \E n \in 1..Len(parses) :
          \E q \in Range(parse(parses[n].content).val.imports) : ParsesOf(q) = {}

(***************************************************************************)
(* What a session must find for a canonical path that is resolved as an    *)
(* import, read off the files on disk (f), the include directories (incl)  *)
(* and the embedded table alone.                                           *)
(***************************************************************************)
StaticFile(f, incl, q) ==
    LET holders == { i \in 1..Len(incl) : FileAt(f, incl[i] \o q).st # "absent" }
    IN  IF holders # {} THEN FileAt(f, incl[Least(holders)] \o q)
        ELSE IF q \in EmbeddedPaths THEN EmbeddedText(q)
        ELSE Absent
StaticModel(f, incl, q) == parse(StaticFile(f, incl, q)).val

\* Depth-first pre-order over declared import order, every file at the
\* position of its first discovery: `todo` are the paths still to visit.
RECURSIVE StaticPreorder(_, _, _, _)
StaticPreorder(f, incl, todo, done) ==
    IF todo = <<>> THEN done
    ELSE IF Head(todo) \in Range(done) THEN StaticPreorder(f, incl, Tail(todo), done)
    ELSE StaticPreorder(f, incl, StaticModel(f, incl, Head(todo)).imports \o Tail(todo),
                        Append(done, Head(todo)))
StaticClosure(f, incl, q) == StaticPreorder(f, incl, StaticModel(f, incl, q).imports, <<>>)

\* The cache entry of q, and the dependency list handed to the converter for q.
StaticPair(f, incl, q) ==
    [parsed |-> StaticModel(f, incl, q),
     descriptor |-> [name |-> q,
                     dependency |-> StaticModel(f, incl, q).imports,
                     decls |-> StaticModel(f, incl, q).decls,
                     resolved |-> StaticClosure(f, incl, q)]]
StaticDeps(f, incl, q) ==
    [n \in 1..Len(StaticClosure(f, incl, q)) |->
        StaticPair(f, incl, StaticClosure(f, incl, q)[n])]

Reverse(s) == [n \in 1..Len(s) |-> s[Len(s) + 1 - n]]

\* The files on disk with the imports of the file at `path` declared in the
\* opposite order.
WithImportsReversed(f, path) ==
    [loc \in DOMAIN f |->
        IF loc = FsNorm(path) THEN [f[loc] EXCEPT !.imports = Reverse(@)] ELSE f[loc]]

\* Every input is the file an import of its canonical path would find.
InputsAreFirstMatches ==
    \A n \in 1..Len(input) :
        ExpressibleUnder(input[n]) # {} =>
            FileAt(fs, input[n]) = StaticFile(fs, includes, CanonicalOf(input[n]))

(***************************************************************************)
(* C13: the cache entry of a shared dependency does not depend on the      *)
(* route by which it was first reached.  The File Model and the ordered    *)
(* dependency list handed to the converter for a file C are those read     *)
(* off the files of C's own import closure, whichever importer reached C   *)
(* first; and these do not change when a top-level file that imports A and *)
(* B, both importing C, declares its imports in the opposite order.        *)
(***************************************************************************)
C13_SharedDependencyIsRouteIndependent ==
    InputsAreFirstMatches =>
        /\ \A n \in 1..Len(converts) :
              /\ converts[n].parsed = StaticModel(fs, includes, converts[n].protobuf_path)
              /\ converts[n].deps = StaticDeps(fs, includes, converts[n].protobuf_path)
        /\ \A n \in 1..Len(parsed_files) :
              parsed_files[n].val = StaticPair(fs, includes, parsed_files[n].key)
        /\ \A k \in 1..Len(relative_paths) :
              \A q \in Range(StaticClosure(fs, includes, relative_paths[k])) :
                  relative_paths[k] \notin Range(StaticClosure(fs, includes, q)) =>
                      /\ StaticPair(WithImportsReversed(fs, input[k]), includes, q)
                             = StaticPair(fs, includes, q)
                      /\ StaticDeps(WithImportsReversed(fs, input[k]), includes, q)
                             = StaticDeps(fs, includes, q)

\* A diamond whose top-level file declares B before A: C, which has an
\* import of its own, was reached through B, converted once and is cached.
C13_Witness ==
    /\ outcome = "ok"
    /\ relative_paths = <<T>>
    /\ EntryOf(T).parsed.imports = <<B, A>>
    /\ C \in Range(EntryOf(A).parsed.imports)
    /\ C \in Range(EntryOf(B).parsed.imports)
    /\ Cardinality(ConvertsOf(C)) = 1
    /\ converts[FirstConvert(C)].deps # <<>>
    /\ FirstConvert(C) < FirstConvert(B)
    /\ FirstConvert(B) < FirstConvert(A)

(***************************************************************************)
(* Depth-first pre-order over the imports recorded in the cache.           *)
(***************************************************************************)
RECURSIVE CachePreorder(_, _)
CachePreorder(todo, done) ==
    IF todo = <<>> THEN done
    ELSE IF Head(todo) \in Range(done) \/ ~Cached(Head(todo))
    THEN CachePreorder(Tail(todo), done)
    ELSE CachePreorder(EntryOf(Head(todo)).parsed.imports \o Tail(todo),
                       Append(done, Head(todo)))

(***************************************************************************)
(* C14: the dependency list handed to the converter for a file F has no    *)
(* file twice and is in depth-first pre-order over declared import order:  *)
(* F's first import, then the closure of that import in the same manner,   *)
(* then F's second import unless it is listed already, and so on.          *)
(***************************************************************************)
C14_DepsInDepthFirstPreorder ==
    [][ converts' # converts =>
          LET call == converts'[Len(converts')]
              order == CachePreorder(call.parsed.imports, <<>>)
          IN  /\ \A q \in Range(call.parsed.imports) : Cached(q)
              /\ call.deps = [n \in 1..Len(order) |-> EntryOf(order[n])]
              /\ \A i, j \in 1..Len(call.deps) :
                    i # j => call.deps[i].descriptor.name # call.deps[j].descriptor.name ]_vars

\* A file that imports a and b, both importing c, was converted with the
\* dependencies a, c, b: c is listed once, after a and before b.
C14_Witness ==
    \E n \in 1..Len(converts) :
        /\ converts[n].parsed.imports = <<A, B>>
        /\ [k \in 1..Len(converts[n].deps) |-> converts[n].deps[k].descriptor.name]
               = <<A, C, B>>
        /\ C \in Range(EntryOf(B).parsed.imports)

(***************************************************************************)
(* C15: in every reachable state the cache is closed under imports: every  *)
(* import of a cached file is cached.  When add_file_content is about to   *)
(* compute the dependency closure of a file, every direct and transitive   *)
(* import of the file is cached, so that expect("must be already parsed")  *)
(* never fails, whatever the sequence of add_fs_file and add_imported_file *)
(* calls and whatever the files.                                           *)
(***************************************************************************)
C15_CacheClosedUnderImports ==
    /\ outcome # "panic"
    /\ \A n \in 1..Len(parsed_files) :
          \A q \in Range(parsed_files[n].val.parsed.imports) : Cached(q)
    /\ (outcome = "running" /\ stack # <<>> /\ Top.i > Len(Top.parsed.imports)) =>
          \A q \in CacheClosure(Range(Top.parsed.imports)) : Cached(q)

\* add_file_content is about to compute the closure of a file with four
\* files in it, two of them reached through imports of imports.
C15_Witness ==
    /\ outcome = "running"
    /\ stack # <<>>
    /\ Top.i > Len(Top.parsed.imports)
    /\ Cardinality(CacheClosure(Range(Top.parsed.imports))) >= 4
    /\ \E q \in CacheClosure(Range(Top.parsed.imports)) :
          q \notin Range(Top.parsed.imports)

(***************************************************************************)
(* C16, as claimed: the cache only grows and its entries are immutable.    *)
(* No step removes an entry, changes the order of the entries there are or *)
(* replaces the File Model or the descriptor stored for a path, and        *)
(* add_file_content never inserts under a canonical path that is present.  *)
(***************************************************************************)
C16_CacheOnlyGrows ==
    [][ /\ Len(parsed_files') >= Len(parsed_files)
        /\ \A n \in 1..Len(parsed_files) : parsed_files'[n] = parsed_files[n]
        /\ (called'.op = "add_file_content" /\ outcome' = "running") =>
              /\ ~Cached(called'.arg)
              /\ parsed_files' = Append(parsed_files, parsed_files'[Len(parsed_files')])
              /\ parsed_files'[Len(parsed_files')].key = called'.arg ]_vars

(***************************************************************************)
(* Import cycles over files.  A cycle is entered when the file of a call   *)
(* in progress is parsed again inside that call; it is about to be entered *)
(* when the next import is not cached and the include directories resolve  *)
(* it to the file of a call in progress.                                   *)
(***************************************************************************)
SameFile(p, q) ==
    SelectSeq(p, LAMBDA c : c # ".") = SelectSeq(q, LAMBDA c : c # ".")
CycleEntered ==
    \E i, j \in 1..Len(stack) : i < j /\ SameFile(stack[i].fs_path, stack[j].fs_path)
CycleAhead ==
    /\ outcome = "running"
    /\ stack # <<>>
    /\ Top.i <= Len(Top.parsed.imports)
    /\ ~Cached(Top.parsed.imports[Top.i])
    /\ Holders(Top.parsed.imports[Top.i]) # {}
    /\ \E k \in 1..Len(stack) :
          SameFile(stack[k].fs_path, FirstHolderPath(Top.parsed.imports[Top.i]))
InImportCycle == CycleAhead \/ CycleEntered
FramesOf(path) == { k \in 1..Len(stack) : SameFile(stack[k].fs_path, path) }

(***************************************************************************)
(* C17: once resolution is in an import cycle whose files can all be       *)
(* found and parsed, the recursion never returns: the session stays in the *)
(* cycle and yields neither a result nor an error, no file on the cycle is *)
(* ever inserted into the cache, and the files on the cycle are parsed     *)
(* again and again: the nesting of calls reaches every depth (MaxDepth in  *)
(* the model), every call in progress having been parsed for.              *)
(***************************************************************************)
C17_ImportCycleNeverReturns ==
    /\ [](InImportCycle =>
             /\ outcome = "running"
             /\ file_descriptors = <<>>
             /\ error = <<>>
             /\ \A i, j \in 1..Len(stack) :
                   (i < j /\ SameFile(stack[i].fs_path, stack[j].fs_path)) =>
                       \A k \in i..Len(stack) : ~Cached(stack[k].protobuf_path)
             /\ \A k \in 1..Len(stack) :
                   Cardinality({ n \in 1..Len(parses) :
                                   SameFile(parses[n].fs_path, stack[k].fs_path) })
                       >= Cardinality(FramesOf(stack[k].fs_path)))
    /\ [][ InImportCycle => InImportCycle' ]_vars
    /\ (InImportCycle ~> (InImportCycle /\ Len(stack) = MaxDepth))

\* a imports b and b imports a: a has been parsed three times and b twice,
\* nothing is cached, and the session is still running.
C17_Witness ==
    /\ CycleEntered
    /\ Len(stack) = MaxDepth
    /\ Cardinality(FramesOf(D1 \o A)) >= 3
    /\ Cardinality(FramesOf(D1 \o B)) >= 2
    /\ Cardinality(ParsesOf(A)) >= 3
    /\ outcome = "running"
    /\ ~Cached(A)
    /\ ~Cached(B)

(***************************************************************************)
(* The import graph reachable from the inputs has no cycle: no canonical   *)
(* path that the imports of an input lead to is among its own transitive   *)
(* imports.                                                                *)
(***************************************************************************)
StaticAcyclic ==
    \A n \in 1..Len(input) :
        ExpressibleUnder(input[n]) # {} =>
            \A q \in Range(StaticPreorder(fs, includes,
                                          parse(FileAt(fs, input[n])).val.imports, <<>>)) :
                q \notin Range(StaticClosure(fs, includes, q))

(***************************************************************************)
(* C18: when the import graph reachable from the inputs is acyclic,        *)
(* parse_and_typecheck terminates, with a result or with an error.  Every  *)
(* dependency-closure computation inside it ends having cloned each cache  *)
(* entry at most once: as many clones as there are files in the closure,   *)
(* no file twice, and no more than the cache holds.                        *)
(***************************************************************************)
C18_AcyclicSessionsTerminate ==
    /\ (StaticAcyclic ~> (outcome = "ok" \/ outcome = "err"))
    /\ [](StaticAcyclic => Len(stack) < MaxDepth)
    /\ [][ converts' # converts =>
             LET call == converts'[Len(converts')]
             IN  /\ call.clones = Len(call.deps)
                 /\ call.clones <= Len(parsed_files)
                 /\ \A i, j \in 1..Len(call.deps) :
                       i # j => call.deps[i].descriptor.name
                                    # call.deps[j].descriptor.name ]_vars

\* A session of two inputs over an acyclic graph has ended with a result;
\* in it the closure of a diamond (a and b both import c) was computed,
\* with four files and four clones.
C18_Witness ==
    /\ StaticAcyclic
    /\ outcome = "ok"
    /\ Len(input) = 2
    /\ \E n \in 1..Len(converts) :
          /\ converts[n].clones = 4
          /\ Cardinality({ k \in 1..Len(converts[n].deps) :
                             C \in Range(converts[n].deps[k].parsed.imports) }) = 2

C20_CachedMeansFullyProcessed ==
    /\ [](\A n \in 1..Len(parsed_files) :
             LET q == parsed_files[n].key
                 entry == parsed_files[n].val
             IN  /\ \E k \in ParsesOf(q) :
                       /\ parses[k].content.st = "file"
                       /\ parses[k].content.syntax
                       /\ entry.parsed.imports = parses[k].content.imports
                       /\ entry.parsed.decls = parses[k].content.decls
                       /\ \/ /\ parses[k].fs_path \in Range(reads)
                             /\ parses[k].content = FileAt(fs, parses[k].fs_path)
                          \/ /\ q \in EmbeddedPaths
                             /\ Holders(q) = {}
                             /\ parses[k].content = EmbeddedText(q)
                 /\ \E k \in ConvertsOf(q) :
                       /\ converts[k].parsed = entry.parsed
                       /\ entry.descriptor.resolved
                              = [i \in 1..Len(converts[k].deps) |->
                                    converts[k].deps[i].descriptor.name]
                 /\ entry.parsed.decls # "semantic_error"
                 /\ entry.descriptor.name = q
                 /\ \A r \in Range(entry.parsed.imports) : Cached(r))
    /\ [][ outcome' = "err" =>
             /\ parsed_files' = parsed_files
             /\ \A k \in 1..Len(stack) : ~Cached(stack[k].protobuf_path)
             /\ parses' # parses => ~Cached(parses'[Len(parses')].protobuf_path) ]_vars

\* The conversion of a file failed after its two imports and an import of
\* an import had been resolved: the three are cached, the file is not.
C20_Witness ==
    /\ outcome = "err"
    /\ error[Len(error)].kind = "SemanticError"
    /\ Len(parsed_files) >= 3
    /\ LET call == converts[Len(converts)]
       IN  /\ Len(call.parsed.imports) = 2
           /\ Len(call.deps) >= 3
           /\ \A r \in Range(call.parsed.imports) : Cached(r)
           /\ ~Cached(call.protobuf_path)

====
